---- MODULE Spec2Model ----
(***************************************************************************)
(* The Slumber user agent (slumber/connector/ua.py): the signed dispatch   *)
(* layer with its per-thread acting identity (for_user), the request       *)
(* signer, the local/remote classification, the GET cache and retry loop,  *)
(* and the four verbs get, put, post and delete.                           *)
(*                                                                         *)
(* Strings the code slices (addresses) are sequences of one-character      *)
(* strings.  Python's None is the string "None" where the other values are *)
(* strings, and a record with a flag elsewhere.                            *)
(***************************************************************************)
EXTENDS Integers, Sequences, FiniteSets, TLC

VARIABLES
    username,    \* PER_THREAD.username, one slot per thread
    stack,       \* per thread: the active `wrapped` activations of for_user
    exc,         \* per thread: "none", or an exception is propagating:
                 \* "raised", "unwinding" once it left a for_user scope
    pc,          \* per thread: position inside a user agent call
    call,        \* per thread: the frame of the running (or last) call
    cache,       \* django.core.cache: key -> stored entry
    now,         \* the wall clock (datetime.utcnow / the cache's clock)
    authn_name,  \* get_slumber_authn_name(): configured authenticator
    held,        \* a header mapping the caller owns and may pass to its calls
    conv,        \* the server's to_json_data: the field it is given, its result
    handler      \* the in-process application: its answer for each LOCAL path

vars == <<username, stack, exc, pc, call, cache, now, authn_name, held, conv, handler>>

----------------------------------------------------------------------------
(* Bounds of the model *)

MaxDepth == 2      \* nesting depth of for_user scopes explored per thread
MaxTime == 2       \* last clock value explored
MaxHops == 2       \* redirect hops explored for one LOCAL get
LongTTL == 2       \* the positive time-to-live callers ask for

(* Program constants *)

Attempts == 3      \* range(0, 3) in _get

None == "None"
Threads == {"t1", "t2"}
Names == {"a", "b+"}
TTLs == {0, LongTTL}

(* addresses: "h://l/" is the configured local prefix, "h://r/.." remote *)
slumber_local == <<"h", ":", "/", "/", "l", "/">>
LocalBare == <<"/", "a">>
LocalPrefixed == slumber_local \o <<"b">>
RemoteX == <<"h", ":", "/", "/", "r", "/", "x">>
URLs == {LocalBare, LocalPrefixed, RemoteX}

(* the accepted-status argument: None, or a list of statuses *)
NoCodes == [given |-> FALSE, list |-> {}]
Codes(S) == [given |-> TRUE, list |-> S]
CodesArgs == {NoCodes, Codes({302, 404})}

(* what a handler or a server may answer *)
Responses ==
    {[status |-> 200, content |-> c, location |-> <<>>] : c \in {"j1", "j2", "junk"}}
    \cup {[status |-> 404, content |-> "j1", location |-> <<>>]}
    \cup {[status |-> 302, content |-> "junk", location |-> u] : u \in {LocalBare, RemoteX}}
(* further statuses: the other redirect and the other verb defaults *)
MoreResponses ==
    Responses
    \cup {[status |-> 301, content |-> "junk", location |-> LocalBare]}
    \cup {[status |-> st, content |-> "j1", location |-> <<>>] : st \in {204, 410}}
TransportError == [status |-> 0, content |-> "raise", location |-> <<>>]

----------------------------------------------------------------------------
(* Pure helpers *)

StartsWith(s, p) == Len(s) >= Len(p) /\ SubSeq(s, 1, Len(p)) = p

UseFakeBareOnly(url) == IF StartsWith(url, <<"/">>) THEN url ELSE <<>>

(* _use_fake: the local fragment, or None (the empty sequence stands for    *)
(* None: both are falsy at `if url_fragment`)                               *)
UseFakeStripsSlash(url) ==
    IF StartsWith(url, slumber_local)
    THEN SubSeq(url, Len(slumber_local) + 1, Len(url))
    ELSE IF StartsWith(url, <<"/">>) THEN url
    ELSE <<>>
_use_fake(url) ==
    IF StartsWith(url, slumber_local)
    THEN SubSeq(url, Len(slumber_local), Len(url))
    ELSE IF StartsWith(url, <<"/">>) THEN url
    ELSE <<>>

(* index of the first position >= i holding character c, else Len(s) + 1 *)
RECURSIVE Find(_, _, _)
Find(s, c, i) ==
    IF i > Len(s) THEN Len(s) + 1
    ELSE IF s[i] = c THEN i ELSE Find(s, c, i + 1)

(* urlparse(url): path and query of scheme://netloc/path?query *)
urlparse(url) ==
    LET colon == Find(url, ":", 1)
        hasNet == colon + 2 <= Len(url) /\ url[colon + 1] = "/" /\ url[colon + 2] = "/"
        pstart == IF colon > Len(url) THEN 1
                  ELSE IF hasNet THEN Find(url, "/", colon + 3) ELSE colon + 1
        q == Find(url, "?", pstart)
    IN [path |-> SubSeq(url, pstart, q - 1), query |-> SubSeq(url, q + 1, Len(url))]

(* username.encode('utf-7'): '+' is written '+-', ASCII letters as they are *)
utf7(s) ==
    IF s = "a" THEN "a" ELSE IF s = "b+" THEN "b+-" ELSE s

(* ujson.loads wrapped in try/except: the decoded document, {} on failure *)
EmptyDoc == "{}"
loads(content) ==
    IF content = "j1" THEN [ok |-> TRUE, doc |-> "doc1"]
    ELSE IF content = "j2" THEN [ok |-> TRUE, doc |-> "doc2"]
    ELSE [ok |-> FALSE, doc |-> None]
DecodeUnguarded(content) == loads(content).doc
decode(content) == IF loads(content).ok THEN loads(content).doc ELSE EmptyDoc

(* ujson.dumps of the request document *)
dumps(data) == <<"json", data>>
(* a document ujson cannot encode: dumps raises on it *)
Unserializable == "unserializable"
CanDumpAnything(data) == TRUE
CanDump(data) == data # Unserializable
Docs == {"d"}

(* dict.update *)
UpdateKeepsOld(h, new) ==
    [k \in DOMAIN h \cup DOMAIN new |-> IF k \in DOMAIN h THEN h[k] ELSE new[k]]
update(h, new) ==
    [k \in DOMAIN h \cup DOMAIN new |-> IF k \in DOMAIN new THEN new[k] ELSE h[k]]

DefaultHeaders == [k \in {"Accept"} |-> "application/json"]

(* the mapping a caller builds to pass as `headers` *)
CallerHeaders == [k \in {"Accept"} |-> "text/plain"]

(* the accepted statuses: `codes or [200]` and its siblings *)
DefaultCodesOfGet(verb) == {200}
DefaultCodes(verb) ==
    IF verb = "DELETE" THEN {200, 404, 410}
    ELSE IF verb = "PUT" THEN {200, 201, 204}
    ELSE {200}
Accepted(verb, codes) ==
    IF codes.given /\ codes.list # {} THEN codes.list ELSE DefaultCodes(verb)

(* what the caller asked for: the override if given, else the verb default *)
Asked(verb, codes) == IF codes.given THEN codes.list ELSE DefaultCodes(verb)

----------------------------------------------------------------------------
(* Identity Context: for_user *)

(* PER_THREAD is a threading.local: an assignment reaches one thread's slot *)
GlobalSet(u, t, v) == [x \in DOMAIN u |-> v]
PER_THREAD_set(u, t, v) == [u EXCEPT ![t] = v]

(* name = getattr(PER_THREAD, 'username', None): the slots after the read *)
PER_THREAD_pop(u, t) == [u EXCEPT ![t] = None]
PER_THREAD_get(u, t) == u

(* the value `finally: PER_THREAD.username = old` writes back *)
OverwriteRestore(old, cur, raising) == None
NoFinallyRestore(old, cur, raising) == IF raising THEN cur ELSE old
wrapped_finally(old, cur, raising) == old

(* the innermost scope a thread has open, None outside every scope *)
Innermost(t) == IF stack[t] = <<>> THEN None ELSE stack[t][Len(stack[t])].name

(* wrapped(): old = getattr(PER_THREAD, 'username', None); set the name *)
EnterScope(t, name) ==
    /\ pc[t] = "idle" /\ exc[t] = "none"
    /\ Len(stack[t]) < MaxDepth
    /\ stack' = [stack EXCEPT ![t] = Append(@, [name |-> name, old |-> username[t]])]
    /\ username' = PER_THREAD_set(username, t, name)
    /\ UNCHANGED <<exc, pc, call, cache, now, authn_name, held, conv, handler>>

(* the decorated function's body raises *)
Raise(t) ==
    /\ pc[t] = "idle" /\ exc[t] = "none"
    /\ stack[t] # <<>>
    /\ exc' = [exc EXCEPT ![t] = "raised"]
    /\ UNCHANGED <<username, stack, pc, call, cache, now, authn_name, held, conv, handler>>

(* wrapped() ends: by return, or by an exception passing through `finally` *)
ExitScope(t) ==
    /\ pc[t] = "idle"
    /\ stack[t] # <<>>
    /\ LET top == stack[t][Len(stack[t])]
       IN username' = PER_THREAD_set(username, t,
                          wrapped_finally(top.old, username[t], exc[t] # "none"))
    /\ stack' = [stack EXCEPT ![t] = SubSeq(@, 1, Len(@) - 1)]
    /\ exc' = [exc EXCEPT ![t] = IF @ = "none" THEN "none" ELSE "unwinding"]
    /\ UNCHANGED <<pc, call, cache, now, authn_name, held, conv, handler>>

(* the code around a raising call handles the exception *)
Catch(t) ==
    /\ pc[t] = "idle" /\ exc[t] # "none"
    /\ exc' = [exc EXCEPT ![t] = "none"]
    /\ UNCHANGED <<username, stack, pc, call, cache, now, authn_name, held, conv, handler>>

----------------------------------------------------------------------------
(* Signature Engine *)

(* fost_hmac_request_signature: a keyed hash, injective in what it signs *)
fost_hmac_request_signature(method, url, stamp, to_sign, data) ==
    <<"hmac", method, url, stamp, to_sign, data>>

EmptyHeaders == [k \in {} |-> None]

(* request bodies: a string (a sequence of tokens, <<>> the empty string)  *)
(* or a mapping (the parsed query of a LOCAL get)                          *)
StrBody(v) == [str |-> TRUE, val |-> v]
MapBody(m) == [str |-> FALSE, val |-> m]
encode_multipart(m) == <<"multipart">> \o m
urlencode(m) == m

_calculate_signature(authn, method, url, body, user, stamp) ==
    LET data == IF ~body.str
                THEN IF method \in {"POST", "PUT"}
                     THEN encode_multipart(body.val) ELSE urlencode(body.val)
                ELSE body.val
        to_sign == IF user # None /\ user # ""
                   THEN [k \in {"X-FOST-User"} |-> utf7(user)]
                   ELSE EmptyHeaders
        signature == fost_hmac_request_signature(method, url, stamp, to_sign, data)
        listed == IF DOMAIN to_sign = {} THEN <<"X-FOST-Headers">>
                  ELSE <<"X-FOST-Headers", "X-FOST-User">>
    IN  update([k \in {"Authorization", "X-FOST-Timestamp", "X-FOST-Headers"} |->
                   IF k = "Authorization"
                   THEN [scheme |-> "FOST", name |-> utf7(authn), signature |-> signature]
                   ELSE IF k = "X-FOST-Timestamp" THEN <<stamp, "Z">>
                   ELSE listed],
               to_sign)

(* _sign_request: nothing to add unless an authenticator name is set *)
SignUnconfigured(t, method, url, body) ==
    _calculate_signature(authn_name, method, url, body, username[t], now)
SignLeftovers(t, method, url, body) ==
    IF authn_name # None /\ authn_name # ""
    THEN _calculate_signature(authn_name, method, url, body,
                              IF "X-FOST-User" \in DOMAIN held
                              THEN held["X-FOST-User"] ELSE username[t], now)
    ELSE EmptyHeaders
_sign_request(t, method, url, body) ==
    IF authn_name # None /\ authn_name # ""
    THEN _calculate_signature(authn_name, method, url, body, username[t], now)
    ELSE EmptyHeaders

----------------------------------------------------------------------------
(* Cache Store: django.core.cache behind cache.get / cache.set *)

cache_key(url) == <<"slumber.connector.ua.get.">> \o url

NotCached == [found |-> FALSE, status |-> 0, content |-> ""]

(* cache.get: the stored (response, content), None once the entry expired *)
cache_get(key) ==
    IF key \in DOMAIN cache /\ now < cache[key].expires
    THEN [found |-> TRUE, status |-> cache[key].status, content |-> cache[key].content]
    ELSE NotCached

(* cache.set(key, (response, content), ttl); `by` remembers the writer *)
cache_set_in_halves(key, status, content, ttl, by) ==
    [k \in DOMAIN cache \cup {key} |->
        IF k = key
        THEN [status |-> IF key \in DOMAIN cache THEN cache[key].status ELSE status,
              content |-> content, expires |-> now + ttl, by |-> by]
        ELSE cache[k]]
cache_set(key, status, content, ttl, by) ==
    [k \in DOMAIN cache \cup {key} |->
        IF k = key
        THEN [status |-> status, content |-> content, expires |-> now + ttl, by |-> by]
        ELSE cache[k]]

(* what is known of the last write under a key, expired or not *)
NoWriter == [any |-> FALSE, at |-> 0, ttl |-> 0, accepted |-> {}, verb |-> "none",
             remote |-> FALSE, status |-> 0, content |-> "", scope |-> None]
LastWrite(key) == IF key \in DOMAIN cache THEN cache[key].by ELSE NoWriter

----------------------------------------------------------------------------
(* Request Orchestrator *)

(* a request as handed to an adapter: which adapter, for which address,  *)
(* the path and the body that were signed, the headers signing returned  *)
NoRequest == [adapter |-> "none", addr |-> <<>>, path |-> <<>>, data |-> <<>>,
              signed |-> EmptyHeaders]
Request(adapter, addr, path, data, signed) ==
    [adapter |-> adapter, addr |-> addr, path |-> path, data |-> data,
     signed |-> signed]

NoCall ==
    [verb |-> "none", url |-> <<>>, target |-> <<>>, ttl |-> 0, codes |-> NoCodes,
     asked |-> {}, hops |-> 0, tries |-> 0, trail |-> <<>>, sends |-> 0, headers |-> EmptyHeaders,
     scope |-> None, outcome |-> "none", status |-> 0, content |-> "", doc |-> "",
     from_cache |-> FALSE, read |-> FALSE, wrote |-> FALSE, start |-> 0,
     prior |-> NoWriter, own |-> FALSE, req |-> NoRequest, ttl0 |-> 0, via |-> 0,
     beyond |-> 0]

(* _parse_qs: split the query string off a local path. `path,           *)
(* query_string = url.split('?')` unpacks two pieces: with more than one *)
(* '?' there are more and it raises ValueError (ok = FALSE)              *)
Count(url, c) == Cardinality({i \in 1..Len(url) : url[i] = c})
_parse_qs(url) ==
    LET q == Find(url, "?", 1)
    IN  IF q <= Len(url)
        THEN [ok |-> Count(url, "?") = 1,
              path |-> SubSeq(url, 1, q - 1), query |-> SubSeq(url, q + 1, Len(url))]
        ELSE [ok |-> TRUE, path |-> url, query |-> <<>>]

(* try: return response, loads(content) / except: return response, {} *)
ReturnedMarked(c, status, content, cached) ==
    [c EXCEPT !.outcome = "returned", !.status = status, !.content = content,
              !.doc = decode(content), !.from_cache = TRUE]
Returned(c, status, content, cached) ==
    [c EXCEPT !.outcome = "returned", !.status = status, !.content = content,
              !.doc = decode(content), !.from_cache = cached]

(* assert response.status in codes, (url, response, content) *)
Asserted(c, status, content) ==
    [c EXCEPT !.outcome = "assert", !.status = status, !.content = content]

(* the headers argument: hs = "held" passes the caller's own mapping, and *)
(* `headers or dict(Accept='application/json')` keeps it unless it is     *)
(* empty; hs = "none" passes None                                         *)
UsesOwn(hs) == hs = "held" /\ held # EmptyHeaders
HeadersArg(hs) == IF UsesOwn(hs) THEN held ELSE DefaultHeaders

(* assert response.status in codes *)
PassesRedirects(status, codes) == status \in codes \/ status \in {301, 302}
PassesAlways(status, codes) == TRUE
Passes(status, codes) == status \in codes

(* get(url, ttl, codes, headers): enter _get *)
get(t, url, ttl, codes, hs) ==
    /\ pc[t] = "idle" /\ exc[t] = "none"
    /\ call' = [call EXCEPT ![t] =
                    [NoCall EXCEPT !.verb = "GET", !.url = url, !.target = url,
                                   !.ttl = ttl, !.ttl0 = ttl, !.codes = codes,
                                   !.asked = Asked("GET", codes),
                                   !.headers = HeadersArg(hs),
                                   !.own = UsesOwn(hs),
                                   !.outcome = "running"]]
    /\ pc' = [pc EXCEPT ![t] = "get"]
    /\ UNCHANGED <<username, stack, exc, cache, now, authn_name, held, conv, handler>>

(* `response.status_code in [301, 302] and response.status_code not in codes` *)
FollowsAlways(status, codes) == status \in {301, 302}
Follows(status, codes) == status \in {301, 302} /\ status \notin codes

(* `return get(response['location'], ttl, codes)`: the frame of the new get *)
ReissueDefaults(c, status, location, codes) ==
    [c EXCEPT !.target = location, !.ttl = 0, !.codes = NoCodes,
              !.headers = DefaultHeaders, !.own = FALSE,
              !.hops = @ + 1, !.via = status]
Reissue(c, status, location, codes) ==
    [c EXCEPT !.target = location, !.codes = Codes(codes),
              !.headers = DefaultHeaders, !.own = FALSE,
              !.hops = @ + 1, !.via = status]

(* _get, LOCAL branch: sign, run the in-process handler, follow a redirect *)
(* that is not accepted by calling get again, else assert and decode      *)
GetLocal(t, answers) ==
    /\ pc[t] = "get"
    /\ _use_fake(call[t].target) # <<>>
    /\ LET c == call[t]
           codes == Accepted("GET", c.codes)
           split == _parse_qs(_use_fake(c.target))
       IN IF ~split.ok
          THEN /\ call' = [call EXCEPT ![t] = [c EXCEPT !.outcome = "unpack",
                                                         !.scope = Innermost(t)]]
               /\ pc' = [pc EXCEPT ![t] = "idle"]
               /\ exc' = [exc EXCEPT ![t] = "raised"]
               /\ UNCHANGED held
          ELSE
          \E signed \in {_sign_request(t, "GET", split.path, MapBody(split.query))} :
          \E sent \in {[c EXCEPT !.headers = update(c.headers, signed),
                                  !.sends = @ + 1, !.scope = Innermost(t),
                                  !.req = Request("fake", c.target, split.path,
                                                  urlencode(split.query), signed)]} :
          /\ held' = IF c.own THEN sent.headers ELSE held
          /\ \E r \in answers :
               /\ c.hops = MaxHops => ~Follows(r.status, codes)
               /\ IF Follows(r.status, codes)
                  THEN /\ call' = [call EXCEPT ![t] =
                                      Reissue(sent, r.status, r.location, codes)]
                       /\ UNCHANGED <<pc, exc>>
                  ELSE IF ~Passes(r.status, codes)
                  THEN /\ call' = [call EXCEPT ![t] = Asserted(sent, r.status, r.content)]
                       /\ pc' = [pc EXCEPT ![t] = "idle"]
                       /\ exc' = [exc EXCEPT ![t] = "raised"]
                  ELSE /\ call' = [call EXCEPT ![t] =
                                      Returned(sent, r.status, r.content, FALSE)]
                       /\ pc' = [pc EXCEPT ![t] = "idle"]
                       /\ UNCHANGED exc
    /\ username' = PER_THREAD_get(username, t)
    /\ UNCHANGED <<stack, cache, now, authn_name, conv, handler>>

(* _get, LOCAL branch, the hops after the MaxHops-th: the code counts no  *)
(* hops, `return get(response['location'], ttl, codes)` is followed again *)
(* and again. The model's counters stay at their bounds from here, and of *)
(* the hops beyond them it keeps the parity: every hop is a step          *)
FollowBeyond(t, answers) ==
    /\ pc[t] = "get"
    /\ _use_fake(call[t].target) # <<>>
    /\ call[t].hops = MaxHops
    /\ LET c == call[t]
           codes == Accepted("GET", c.codes)
           split == _parse_qs(_use_fake(c.target))
       IN /\ split.ok
          /\ \E signed \in {_sign_request(t, "GET", split.path, MapBody(split.query))} :
             \E sent \in {[c EXCEPT !.headers = update(c.headers, signed),
                                     !.scope = Innermost(t),
                                     !.req = Request("fake", c.target, split.path,
                                                     urlencode(split.query), signed)]} :
             /\ held' = IF c.own THEN sent.headers ELSE held
             /\ \E r \in answers :
                  /\ Follows(r.status, codes)
                  /\ call' = [call EXCEPT ![t] =
                                 [Reissue(sent, r.status, r.location, codes)
                                    EXCEPT !.hops = MaxHops, !.beyond = 1 - @]]
    /\ username' = PER_THREAD_get(username, t)
    /\ UNCHANGED <<pc, exc, stack, cache, now, authn_name, conv, handler>>

(* `if not cached`: the lookup found an entry *)
HitNever(cached) == FALSE
Hit(cached) == cached.found

(* _get, REMOTE branch: cache.get; a hit is returned marked from_cache, a  *)
(* miss goes on to the retry loop                                          *)
GetLookup(t) ==
    /\ pc[t] = "get"
    /\ _use_fake(call[t].target) = <<>>
    /\ LET c == [call[t] EXCEPT !.read = TRUE, !.start = now,
                                !.scope = Innermost(t),
                                !.prior = LastWrite(cache_key(call[t].target))]
           cached == cache_get(cache_key(c.target))
       IN IF Hit(cached)
          THEN /\ call' = [call EXCEPT ![t] =
                              Returned(c, cached.status, cached.content, TRUE)]
               /\ pc' = [pc EXCEPT ![t] = "idle"]
          ELSE /\ call' = [call EXCEPT ![t] = c]
               /\ pc' = [pc EXCEPT ![t] = "attempt"]
    /\ UNCHANGED <<username, stack, exc, cache, now, authn_name, held, conv, handler>>

(* who wrote an entry: the call's ttl and accepted set, and what it stored *)
WriterOf(c, status, content, codes) ==
    [any |-> TRUE, at |-> now, ttl |-> c.ttl, accepted |-> codes,
     verb |-> c.verb, remote |-> _use_fake(c.target) = <<>>,
     status |-> status, content |-> content, scope |-> c.scope]

StoreAlways(c, status, content, codes) ==
    cache_set(cache_key(c.target), status, content, c.ttl,
              WriterOf(c, status, content, codes))
StoreIfAbsent(c, status, content, codes) ==
    IF c.ttl # 0 /\ cache_key(c.target) \notin DOMAIN cache
    THEN cache_set(cache_key(c.target), status, content, c.ttl,
                   WriterOf(c, status, content, codes))
    ELSE cache
(* `if ttl: cache.set(cache_key, (response, content), ttl)` *)
Store(c, status, content, codes) ==
    IF c.ttl # 0
    THEN cache_set(cache_key(c.target), status, content, c.ttl,
                   WriterOf(c, status, content, codes))
    ELSE cache

(* `if response.status in codes: break`, and the end of range(0, 3) *)
LoopNeverBreaks(status, codes, tries) == tries >= Attempts
LoopEnds(status, codes, tries) == status \in codes \/ tries >= Attempts

(* _get, REMOTE branch after a miss: one pass of the retry loop (sign,     *)
(* send), and after the loop the assert, the cache.set and the decode     *)
GetAttempt(t, answers) ==
    /\ pc[t] = "attempt"
    /\ LET c == call[t]
           codes == Accepted("GET", c.codes)
           parsed == urlparse(c.target)
       IN \E signed \in {_sign_request(t, "GET", parsed.path, StrBody(parsed.query))} :
          \E sent \in {[c EXCEPT !.headers = update(c.headers, signed),
                                  !.sends = @ + 1, !.tries = @ + 1,
                                  !.scope = Innermost(t),
                                  !.req = Request("real", c.target, parsed.path,
                                                  parsed.query, signed)]} :
          /\ held' = IF c.own THEN sent.headers ELSE held
          /\ \E r \in answers \cup {TransportError} :
             LET tried == [sent EXCEPT !.trail = Append(@, r.status)] IN
               IF r = TransportError
               THEN /\ call' = [call EXCEPT ![t] = [tried EXCEPT !.outcome = "error"]]
                    /\ pc' = [pc EXCEPT ![t] = "idle"]
                    /\ exc' = [exc EXCEPT ![t] = "raised"]
                    /\ UNCHANGED cache
               ELSE IF ~LoopEnds(r.status, codes, sent.tries)
               THEN /\ call' = [call EXCEPT ![t] =
                                   [tried EXCEPT !.status = r.status, !.content = r.content]]
                    /\ UNCHANGED <<pc, exc, cache>>
               ELSE IF ~Passes(r.status, codes)
               THEN /\ call' = [call EXCEPT ![t] = Asserted(tried, r.status, r.content)]
                    /\ pc' = [pc EXCEPT ![t] = "idle"]
                    /\ exc' = [exc EXCEPT ![t] = "raised"]
                    /\ UNCHANGED cache
               ELSE /\ cache' = Store(tried, r.status, r.content, codes)
                    /\ call' = [call EXCEPT ![t] =
                                   [Returned(tried, r.status, r.content, FALSE)
                                      EXCEPT !.wrote = (cache' # cache)]]
                    /\ pc' = [pc EXCEPT ![t] = "idle"]
                    /\ UNCHANGED exc
    /\ username' = PER_THREAD_get(username, t)
    /\ UNCHANGED <<stack, now, authn_name, conv, handler>>

(* _put, _post and _delete: sign, send once through the adapter the       *)
(* classification chose, assert the status, decode                        *)
OneShot(t, verb, url, body, codes, hs, answers) ==
    /\ pc[t] = "idle" /\ exc[t] = "none"
    /\ LET local == _use_fake(url) # <<>>
           path == IF local THEN _use_fake(url) ELSE urlparse(url).path
       IN \E signed \in {_sign_request(t, verb, path, StrBody(body))} :
          \E headers \in {IF local THEN update(HeadersArg(hs), signed)
                           ELSE update(update(HeadersArg(hs), signed),
                                       [k \in {"Content-Type"} |-> "application/json"])} :
          \E c \in {[NoCall EXCEPT !.verb = verb, !.url = url, !.target = url,
                                   !.codes = codes, !.asked = Asked(verb, codes),
                                   !.headers = headers,
                                   !.own = UsesOwn(hs), !.sends = 1,
                                   !.scope = Innermost(t),
                                   !.req = Request(IF local THEN "fake" ELSE "real",
                                                   url, path, body, signed)]} :
          /\ held' = IF UsesOwn(hs) THEN headers ELSE held
          /\ \E r \in answers \cup (IF local THEN {} ELSE {TransportError}) :
               IF r = TransportError
               THEN /\ call' = [call EXCEPT ![t] = [c EXCEPT !.outcome = "error"]]
                    /\ exc' = [exc EXCEPT ![t] = "raised"]
               ELSE IF ~Passes(r.status, Accepted(verb, codes))
               THEN /\ call' = [call EXCEPT ![t] = Asserted(c, r.status, r.content)]
                    /\ exc' = [exc EXCEPT ![t] = "raised"]
               ELSE /\ call' = [call EXCEPT ![t] = Returned(c, r.status, r.content, FALSE)]
                    /\ UNCHANGED exc
    /\ username' = PER_THREAD_get(username, t)
    /\ UNCHANGED <<stack, pc, cache, now, authn_name, conv, handler>>

delete(t, url, codes, hs, answers) == OneShot(t, "DELETE", url, <<>>, codes, hs, answers)

(* body = dumps(data) raises: _put / _post end there, before _use_fake, *)
(* the signing and the request                                          *)
EncodeFails(t, verb, url, codes) ==
    /\ pc[t] = "idle" /\ exc[t] = "none"
    /\ call' = [call EXCEPT ![t] =
                    [NoCall EXCEPT !.verb = verb, !.url = url, !.target = url,
                                   !.codes = codes, !.asked = Asked(verb, codes),
                                   !.scope = Innermost(t), !.outcome = "encode"]]
    /\ exc' = [exc EXCEPT ![t] = "raised"]
    /\ UNCHANGED <<username, stack, pc, cache, now, authn_name, held, conv, handler>>

put(t, url, data, codes, hs, answers) ==
    IF CanDump(data)
    THEN OneShot(t, "PUT", url, dumps(data), codes, hs, answers)
    ELSE EncodeFails(t, "PUT", url, codes)

(* body = dumps(data) if data else ''; post takes no headers argument *)
post(t, url, data, codes, answers) ==
    IF data = None
    THEN OneShot(t, "POST", url, <<>>, codes, "none", answers)
    ELSE IF CanDump(data)
    THEN OneShot(t, "POST", url, dumps(data), codes, "none", answers)
    ELSE EncodeFails(t, "POST", url, codes)

----------------------------------------------------------------------------
(* The server's JSON formatting: slumber/server/json.py *)

(* Python values: their type, their text, and for a model instance its pk *)
Py(type, text) == [py |-> type, v |-> text, pk |-> ""]
Instance(model, text, pk) == [py |-> model, v |-> text, pk |-> pk]
PyNone == Py("NoneType", "None")
Scalars == {Py("bool", "True"), Py("bool", "False"), Py("int", "0"), Py("int", "7"),
            Py("unicode", ""), Py("unicode", "x"), Py("date", "2010-01-01")}
Instances == {Instance("Shop", "shop1", "1"), Instance("Shop", "shop2", "2"),
              Instance("Pizza", "p1", "1")}

(* unicode(value): the text of a value *)
unicode(value) == Py("unicode", value.v)

DATA_MAPPING == {"django.db.models.fields.AutoField",
                 "django.db.models.fields.BooleanField",
                 "django.db.models.fields.NullBooleanField"}
ScalarTypes == DATA_MAPPING \cup {"django.db.models.fields.CharField",
                                  "django.db.models.fields.IntegerField",
                                  "django.db.models.fields.DateField"}
ObjectTypes == {"django.db.models.fields.related.ForeignKey",
                "django.db.models.fields.related.OneToOneField"}

(* get_slumber_root() and DJANGO_MODEL_TO_SLUMBER_MODEL[type(value)].path *)
slumber_root == <<"/slumber/">>
rel_to_path(value) == <<"slumber_examples/", value.py, "/">>

ToJsonAlwaysText(kind, type, value) ==
    IF value = PyNone THEN PyNone ELSE unicode(value)
to_json_data(kind, type, value) ==
    IF kind = "object"
    THEN IF value = PyNone THEN PyNone
         ELSE [py |-> "dict",
               type |-> slumber_root \o rel_to_path(value),
               display |-> unicode(value),
               data |-> slumber_root \o rel_to_path(value) \o <<"data/", value.pk, "/">>]
    ELSE IF type \in DATA_MAPPING THEN value
    ELSE IF value = PyNone THEN PyNone
    ELSE unicode(value)

(* the fields of the models: a reference holds an instance or None, any *)
(* other field a scalar or None                                         *)
Fields ==
    {[kind |-> "object", type |-> ty, value |-> v, done |-> FALSE, result |-> PyNone] :
        ty \in ObjectTypes, v \in Instances \cup {PyNone}}
    \cup
    {[kind |-> "value", type |-> ty, value |-> v, done |-> FALSE, result |-> PyNone] :
        ty \in ScalarTypes, v \in Scalars \cup {PyNone}}

(* no conversion asked of the server, no fixed application *)
NoConversion == [kind |-> "none", type |-> "none", value |-> PyNone, done |-> FALSE,
                 result |-> PyNone]

(* instance data is built: to_json_data is called for a field *)
ConvertField ==
    /\ ~conv.done /\ conv.kind # "none"
    /\ conv' = [conv EXCEPT !.done = TRUE,
                            !.result = to_json_data(conv.kind, conv.type, conv.value)]
    /\ UNCHANGED <<username, stack, exc, pc, call, cache, now, authn_name, held, handler>>

(* the next field of the instance *)
NextField ==
    /\ conv.done
    /\ conv' \in Fields
    /\ UNCHANGED <<username, stack, exc, pc, call, cache, now, authn_name, held, handler>>
NoHandler == [u \in {} |-> None]

(* time passes *)
Tick ==
    /\ now < MaxTime
    /\ now' = now + 1
    /\ UNCHANGED <<username, stack, exc, pc, call, cache, authn_name, held, conv, handler>>

----------------------------------------------------------------------------
(* Specifications *)

Init ==
    /\ username = [t \in Threads |-> None]
    /\ stack = [t \in Threads |-> <<>>]
    /\ exc = [t \in Threads |-> "none"]
    /\ pc = [t \in Threads |-> "idle"]
    /\ call = [t \in Threads |-> NoCall]
    /\ cache = [k \in {} |-> None]
    /\ now = 0
    /\ authn_name = "service"
    /\ held = CallerHeaders
    /\ conv = NoConversion
    /\ handler = NoHandler

Caller == "t1"

(* one caller thread outside every scope: every verb, the cache, the clock *)
Next ==
    \/ Catch(Caller)
    \/ \E u \in URLs, ttl \in TTLs, cs \in CodesArgs : get(Caller, u, ttl, cs, "none")
    \/ GetLocal(Caller, Responses)
    \/ GetLookup(Caller)
    \/ GetAttempt(Caller, Responses)
    \/ \E u \in {LocalPrefixed, RemoteX}, cs \in CodesArgs :
          delete(Caller, u, cs, "none", Responses)
    \/ \E u \in {LocalPrefixed, RemoteX}, d \in Docs, cs \in CodesArgs :
          put(Caller, u, d, cs, "none", Responses)
    \/ \E u \in {LocalPrefixed, RemoteX}, d \in Docs \cup {None}, cs \in CodesArgs :
          post(Caller, u, d, cs, Responses)
    \/ Tick

Spec == Init /\ [][Next]_vars

(* every thread enters and leaves for_user scopes and sends signed requests *)
NextIdentity ==
    \E t \in Threads :
        \/ \E n \in Names : EnterScope(t, n)
        \/ Raise(t)
        \/ ExitScope(t)
        \/ Catch(t)
        \/ post(t, LocalBare, None, NoCodes, Responses)

SpecIdentity == Init /\ [][NextIdentity]_vars

(* one caller signs under every configuration: the authenticator name set *)
(* or not, scopes of a name or of the empty name, its own header mapping   *)
(* passed again and again or none passed                                   *)
SigningNames == {"a", ""}
SigningAnswers == {r \in Responses : r.content = "j1"}
HeaderArgs == {"none", "held"}

InitSigning ==
    /\ username = [t \in Threads |-> None]
    /\ stack = [t \in Threads |-> <<>>]
    /\ exc = [t \in Threads |-> "none"]
    /\ pc = [t \in Threads |-> "idle"]
    /\ call = [t \in Threads |-> NoCall]
    /\ cache = [k \in {} |-> NoWriter]
    /\ now = 0
    /\ authn_name \in {None, "", "service"}
    /\ held = CallerHeaders
    /\ conv = NoConversion
    /\ handler = NoHandler

NextSigning ==
    \/ \E n \in SigningNames : EnterScope(Caller, n)
    \/ ExitScope(Caller)
    \/ Catch(Caller)
    \/ \E u \in {LocalBare, RemoteX}, hs \in HeaderArgs : get(Caller, u, 0, NoCodes, hs)
    \/ GetLocal(Caller, SigningAnswers)
    \/ GetLookup(Caller)
    \/ GetAttempt(Caller, SigningAnswers)
    \/ \E hs \in HeaderArgs : delete(Caller, LocalPrefixed, NoCodes, hs, SigningAnswers)
    \/ \E hs \in HeaderArgs : put(Caller, RemoteX, "d", NoCodes, hs, SigningAnswers)
    \/ post(Caller, LocalBare, "d", NoCodes, SigningAnswers)

SpecSigning == InitSigning /\ [][NextSigning]_vars

(* one caller uses every verb on LOCAL and REMOTE addresses of every      *)
(* shape, with and without an accepted set, against every answer          *)
NearLocal == <<"h", ":", "/", "/", "l", "x">>
Addresses == URLs \cup {slumber_local, NearLocal}
VerbCodes == CodesArgs \cup {Codes({})}
VerbAnswers == {r \in MoreResponses : r.content # "j2" /\ r.location # RemoteX}
AttemptAnswers == {r \in Responses : r.content # "j2" /\ r.location = <<>>}

NextVerbs ==
    \/ Catch(Caller)
    \/ \E u \in Addresses, cs \in VerbCodes : get(Caller, u, 0, cs, "none")
    \/ GetLocal(Caller, VerbAnswers)
    \/ GetLookup(Caller)
    \/ GetAttempt(Caller, AttemptAnswers)
    \/ \E u \in Addresses, cs \in VerbCodes : delete(Caller, u, cs, "none", VerbAnswers)
    \/ \E u \in {LocalPrefixed, RemoteX}, d \in Docs, cs \in VerbCodes :
          put(Caller, u, d, cs, "none", VerbAnswers)
    \/ \E u \in {LocalPrefixed, RemoteX}, d \in Docs \cup {None}, cs \in VerbCodes :
          post(Caller, u, d, cs, VerbAnswers)

SpecVerbs == Init /\ [][NextVerbs]_vars

(* one caller sends GETs to LOCAL addresses whose handlers redirect, to  *)
(* LOCAL and to REMOTE targets                                            *)
RedirectAnswers == {r \in MoreResponses : r.content # "j2"}

NextRedirect ==
    \/ Catch(Caller)
    \/ \E u \in {LocalBare, LocalPrefixed}, ttl \in TTLs, cs \in VerbCodes :
          get(Caller, u, ttl, cs, "none")
    \/ GetLocal(Caller, RedirectAnswers)
    \/ GetLookup(Caller)
    \/ GetAttempt(Caller, AttemptAnswers)

SpecRedirect == Init /\ [][NextRedirect]_vars

(* one caller inside and outside for_user scopes uses every verb: gets   *)
(* that are redirected, retried and cached, writes whose document may    *)
(* not be serializable                                                   *)
FrameAnswers == {r \in Responses : r.content # "j2"}
Documents == Docs \cup {Unserializable}

NextFrame ==
    \/ \E n \in Names : EnterScope(Caller, n)
    \/ ExitScope(Caller)
    \/ Catch(Caller)
    \/ \E u \in {LocalBare, RemoteX} : get(Caller, u, LongTTL, NoCodes, "none")
    \/ GetLocal(Caller, FrameAnswers)
    \/ GetLookup(Caller)
    \/ GetAttempt(Caller, AttemptAnswers)
    \/ delete(Caller, LocalPrefixed, NoCodes, "none", SigningAnswers)
    \/ \E d \in Documents, hs \in HeaderArgs :
          put(Caller, RemoteX, d, NoCodes, hs, SigningAnswers)
    \/ \E d \in Documents \cup {None} : post(Caller, LocalBare, d, NoCodes, SigningAnswers)

SpecFrame == Init /\ [][NextFrame]_vars

(* two threads send GETs to one REMOTE address at the same time: each   *)
(* lookup, each attempt and each store is a step of its own             *)
RaceCodes == {NoCodes, Codes({404})}
RaceAnswers == {r \in AttemptAnswers : r.content = "j1"}

NextRace ==
    \E t \in Threads :
        \/ Catch(t)
        \/ \E ttl \in TTLs, cs \in RaceCodes : get(t, RemoteX, ttl, cs, "none")
        \/ GetLookup(t)
        \/ GetAttempt(t, RaceAnswers)
        \/ Tick /\ t = Caller

SpecRace == Init /\ [][NextRace]_vars

(* one caller's REMOTE gets are retried while the clock moves between the *)
(* attempts, under every configuration and with its own header mapping    *)
BetweenAttempts(t) == pc[t] = "attempt" /\ call[t].tries >= 1 /\ Tick

NextRetry ==
    \/ \E n \in Names : EnterScope(Caller, n)
    \/ ExitScope(Caller)
    \/ Catch(Caller)
    \/ \E hs \in HeaderArgs : get(Caller, RemoteX, 0, NoCodes, hs)
    \/ GetLookup(Caller)
    \/ GetAttempt(Caller, AttemptAnswers)
    \/ BetweenAttempts(Caller)

SpecRetry == InitSigning /\ [][NextRetry]_vars

(* one caller gets LOCAL and REMOTE addresses with no, one and two '?' *)
WithQuery(url) == url \o <<"?", "q">>
WithTwo(url) == url \o <<"?", "q", "?", "r">>
QueryAddresses == {LocalBare, WithQuery(LocalBare), WithTwo(LocalBare),
                   WithQuery(LocalPrefixed), RemoteX, WithQuery(RemoteX),
                   WithTwo(RemoteX)}

NextQuery ==
    \/ \E n \in Names : EnterScope(Caller, n)
    \/ ExitScope(Caller)
    \/ Catch(Caller)
    \/ \E u \in QueryAddresses : get(Caller, u, 0, NoCodes, "none")
    \/ GetLocal(Caller, AttemptAnswers)
    \/ GetLookup(Caller)
    \/ GetAttempt(Caller, AttemptAnswers)

SpecQuery == Init /\ [][NextQuery]_vars

(* one caller gets LOCAL addresses from an application whose handler     *)
(* answers each address in a fixed way, redirects among them included;   *)
(* a call, once made, runs on: the calls are synchronous                 *)
LocalTargets == {LocalBare, LocalPrefixed}
HandlerAnswers ==
    {[status |-> 200, content |-> "j1", location |-> <<>>],
     [status |-> 404, content |-> "j1", location |-> <<>>],
     [status |-> 302, content |-> "junk", location |-> LocalBare],
     [status |-> 301, content |-> "junk", location |-> LocalPrefixed]}
Handled(t) ==
    IF call[t].target \in DOMAIN handler THEN {handler[call[t].target]} ELSE {}

InitTermination ==
    /\ username = [t \in Threads |-> None]
    /\ stack = [t \in Threads |-> <<>>]
    /\ exc = [t \in Threads |-> "none"]
    /\ pc = [t \in Threads |-> "idle"]
    /\ call = [t \in Threads |-> NoCall]
    /\ cache = [k \in {} |-> NoWriter]
    /\ now = 0
    /\ authn_name = "service"
    /\ held = CallerHeaders
    /\ conv = NoConversion
    /\ handler \in [LocalTargets -> HandlerAnswers]

RunLocal(t) == GetLocal(t, Handled(t)) \/ FollowBeyond(t, Handled(t))

NextTermination ==
    \/ Catch(Caller)
    \/ \E u \in LocalTargets, cs \in CodesArgs : get(Caller, u, 0, cs, "none")
    \/ GetLocal(Caller, Handled(Caller))
    \/ FollowBeyond(Caller, Handled(Caller))

SpecTermination ==
    InitTermination /\ [][NextTermination]_vars /\ WF_vars(RunLocal(Caller))

(* the server converts the fields of model instances, one after another *)
InitJson ==
    /\ username = [t \in Threads |-> None]
    /\ stack = [t \in Threads |-> <<>>]
    /\ exc = [t \in Threads |-> "none"]
    /\ pc = [t \in Threads |-> "idle"]
    /\ call = [t \in Threads |-> NoCall]
    /\ cache = [k \in {} |-> NoWriter]
    /\ now = 0
    /\ authn_name = "service"
    /\ held = CallerHeaders
    /\ conv \in Fields
    /\ handler = NoHandler

NextJson == ConvertField \/ NextField

SpecJson == InitJson /\ [][NextJson]_vars

----------------------------------------------------------------------------
(* Properties of the orchestrator, checked under Spec *)

(* the classification rule: an address under the configured local root,   *)
(* or a bare path, is LOCAL                                               *)
IsLocalAddress(url) == StartsWith(url, slumber_local) \/ StartsWith(url, <<"/">>)

Finished(c) == c.outcome \in {"returned", "assert", "error"}
RemoteGet(c) == c.verb = "GET" /\ c.read

(* C1: every call that returns normally returns a response whose status   *)
(* is in the accepted-status set the caller asked for (the override, else *)
(* the verb default), also when a REMOTE GET is answered from the cache   *)
(* or a LOCAL GET followed a redirect.                                    *)
C1_ReturnedStatusAccepted ==
    \A t \in Threads :
        call[t].outcome = "returned" => call[t].status \in call[t].asked

(* C2: a REMOTE GET that missed the cache makes at most 3 attempts, one   *)
(* after another, and stops at the first accepted one: it goes on only    *)
(* while every attempt so far was not accepted, returns the response of   *)
(* its last attempt, which is the only accepted one, and raises the       *)
(* protocol violation exactly after 3 attempts that were all not accepted.*)
C2_RetryBound ==
    \A t \in Threads :
        LET c == call[t]
            acc == Accepted("GET", c.codes)
            n == Len(c.trail)
        IN  (RemoteGet(c) /\ ~c.from_cache) =>
              /\ n <= Attempts /\ c.tries = n
              /\ \A i \in 1..(n - 1) : c.trail[i] \notin acc /\ c.trail[i] # 0
              /\ pc[t] = "attempt" => (n < Attempts /\ \A i \in 1..n : c.trail[i] \notin acc)
              /\ c.outcome = "returned" =>
                    (n >= 1 /\ c.trail[n] \in acc /\ c.status = c.trail[n])
              /\ c.outcome = "assert" =>
                    (n = Attempts /\ c.trail[n] \notin acc /\ c.status = c.trail[n])

C2_ThirdAttemptReturned ==
    \E t \in Threads :
        /\ RemoteGet(call[t]) /\ call[t].outcome = "returned"
        /\ Len(call[t].trail) = Attempts
        /\ call[t].trail[1] \notin Accepted("GET", call[t].codes)
        /\ call[t].trail[2] \notin Accepted("GET", call[t].codes)

(* the TTL window of the entry last stored under the call's address, as   *)
(* it stood when the call looked the address up                           *)
InWindow(c) == c.prior.any /\ c.start - c.prior.at < c.prior.ttl
Expired(c) == c.prior.any /\ c.start - c.prior.at >= c.prior.ttl

(* C3: the same REMOTE GET issued again with TTL > 0 inside the TTL       *)
(* window of the GET that stored the entry goes to the network not at all:*)
(* of the two calls only the first is a network call, the second returns  *)
(* marked served-from-cache with the decoded content of the first.        *)
C3_SecondGetServedFromCache ==
    \A t \in Threads :
        LET c == call[t]
        IN  (RemoteGet(c) /\ c.ttl > 0 /\ InWindow(c)) =>
              /\ pc[t] = "idle" /\ c.outcome = "returned"
              /\ c.from_cache /\ c.tries = 0 /\ c.trail = <<>>
              /\ c.status = c.prior.status
              /\ c.doc = decode(c.prior.content)

C3_HitInsideWindow ==
    \E t \in Threads :
        /\ RemoteGet(call[t]) /\ call[t].ttl > 0 /\ InWindow(call[t])
        /\ call[t].start > call[t].prior.at
        /\ call[t].from_cache /\ call[t].doc = "doc2"

(* C4: an entry whose age has reached its TTL (now - created_at >= ttl)   *)
(* is a miss: the GET is not served from the cache, it goes to the        *)
(* network, and when it returns with TTL > 0 the entry is the one this    *)
(* call fetched, created at the time of this call.                        *)
C4_ExpiredEntryRefetched ==
    \A t \in Threads :
        LET c == call[t]
            key == cache_key(c.target)
        IN  (RemoteGet(c) /\ Expired(c)) =>
              /\ ~c.from_cache
              /\ Finished(c) => (c.tries >= 1 /\ c.tries <= Attempts)
              /\ (c.outcome = "returned" /\ c.ttl > 0) =>
                    /\ cache[key].status = c.status
                    /\ cache[key].content = c.content
                    /\ cache[key].by.at >= c.start
                    /\ cache[key].expires = cache[key].by.at + c.ttl

C4_MissAtTTL ==
    \E t \in Threads :
        /\ RemoteGet(call[t]) /\ call[t].prior.any
        /\ call[t].start - call[t].prior.at = call[t].prior.ttl
        /\ call[t].outcome = "returned" /\ call[t].ttl > 0 /\ call[t].wrote

(* C5: a REMOTE GET called with ttl = 0 is never answered from the Cache  *)
(* Store: it always performs a network call, even when an unexpired entry *)
(* for the same address was stored by an earlier GET with ttl > 0.        *)
C5_ZeroTTLBypassesCache ==
    \A t \in Threads :
        (RemoteGet(call[t]) /\ call[t].ttl = 0 /\ call[t].outcome = "returned") =>
            (~call[t].from_cache /\ call[t].tries >= 1)

(* C6: the Cache Store changes only when a REMOTE GET with TTL > 0        *)
(* returns its own accepted attempt, and the change is exactly that       *)
(* attempt's (response, content) stored under the address's key; a GET    *)
(* that exhausts its attempts, or has ttl = 0, writes nothing.            *)
C6_OnlyAcceptedResponsesStored ==
    [][cache' # cache =>
         \E t \in Threads :
            LET c == call'[t]
                key == cache_key(c.target)
            IN  /\ pc[t] = "attempt" /\ c.verb = "GET" /\ ~IsLocalAddress(c.target)
                /\ c.ttl > 0
                /\ c.outcome = "returned" /\ ~c.from_cache
                /\ c.status \in c.asked
                /\ c.trail # <<>> /\ c.status = c.trail[Len(c.trail)]
                /\ DOMAIN cache' = DOMAIN cache \cup {key}
                /\ cache'[key].status = c.status
                /\ cache'[key].content = c.content
                /\ \A k \in DOMAIN cache \ {key} : cache'[k] = cache[k]]_vars

C6_OverrideAcceptedStored ==
    /\ cache_key(RemoteX) \in DOMAIN cache
    /\ cache[cache_key(RemoteX)].status = 404
    /\ call[Caller].outcome = "assert" /\ call[Caller].ttl > 0
    /\ call[Caller].target = RemoteX /\ call[Caller].tries = Attempts

(* C7 as stated: a get whose address is LOCAL, and every put, post and    *)
(* delete, never reads and never changes the Cache Store, whatever the    *)
(* handler answers, redirects included.                                   *)
C7_LocalGetNeverTouchesCache ==
    \A t \in Threads :
        (\/ call[t].verb \in {"PUT", "POST", "DELETE"}
         \/ call[t].verb = "GET" /\ IsLocalAddress(call[t].url))
        => (~call[t].read /\ ~call[t].wrote)

(* C7 amended: every put, post and delete, and every step of a get taken  *)
(* while the address it is serving is LOCAL, leaves the Cache Store       *)
(* unchanged and unread; only a get re-issued to a REMOTE redirect target *)
(* touches it.                                                            *)
C7_LocalHopsAndWritesLeaveCache ==
    [][\A t \in Threads :
         (/\ call'[t] # call[t]
          /\ \/ call'[t].verb \in {"PUT", "POST", "DELETE"}
             \/ call[t].verb = "GET" /\ pc[t] = "get" /\ IsLocalAddress(call[t].target))
         => /\ cache' = cache
            /\ call'[t].read = (call'[t].verb = "GET" /\ call[t].read)
            /\ ~call'[t].wrote]_vars

C7_WriteKeepsEntry ==
    \E t \in Threads :
        /\ call[t].verb = "PUT" /\ call[t].url = RemoteX
        /\ call[t].outcome = "returned"
        /\ cache_get(cache_key(RemoteX)).found

----------------------------------------------------------------------------
(* Properties of the Identity Context, checked under SpecIdentity *)

(* C8: on every thread the current identity is the name of the innermost  *)
(* for_user scope the thread has open, absent outside every scope: after  *)
(* a scope exits it is again the value that was current at its entry.     *)
C8_StackDiscipline ==
    \A t \in Threads : username[t] = Innermost(t)

C8_NestedScopes ==
    /\ Len(stack["t1"]) = 2
    /\ stack["t1"][1].name = "b+" /\ stack["t1"][2].name = "a"
    /\ stack["t1"][2].old = "b+" /\ username["t1"] = "a"

(* C9: when a for_user scope is left by an exception, the identity is     *)
(* back to the value held at the scope's entry and the exception is still *)
(* propagating, at every nesting depth.                                   *)
C9_RestoredOnFailure ==
    [][\A t \in Threads :
         (Len(stack'[t]) < Len(stack[t]) /\ exc[t] # "none")
         => /\ username'[t] = stack[t][Len(stack[t])].old
            /\ username'[t] = (IF stack'[t] = <<>> THEN None
                                ELSE stack'[t][Len(stack'[t])].name)
            /\ exc'[t] = "unwinding"]_vars

C9_UnwoundToOuterScope ==
    /\ exc["t1"] = "unwinding"
    /\ Len(stack["t1"]) = 1 /\ stack["t1"][1].name = "b+"
    /\ username["t1"] = "b+"

(* C10: the request a thread sends is signed with the innermost scope     *)
(* that same thread had open when it signed (no user header if none),     *)
(* whatever scopes the other threads entered or left meanwhile.           *)
C10_SignedWithOwnIdentity ==
    \A t \in Threads :
        call[t].sends > 0 =>
            IF call[t].scope = None
            THEN "X-FOST-User" \notin DOMAIN call[t].headers
            ELSE /\ "X-FOST-User" \in DOMAIN call[t].headers
                 /\ call[t].headers["X-FOST-User"] = utf7(call[t].scope)

C10_TwoThreadsTwoIdentities ==
    /\ Innermost("t1") = "a" /\ Innermost("t2") = "b+"
    /\ call["t1"].sends = 1 /\ call["t1"].scope = "a"
    /\ "X-FOST-User" \in DOMAIN call["t1"].headers
    /\ call["t1"].headers["X-FOST-User"] = "a"
    /\ call["t2"].sends = 1 /\ call["t2"].scope = "b+"
    /\ "X-FOST-User" \in DOMAIN call["t2"].headers
    /\ call["t2"].headers["X-FOST-User"] = "b+-"

----------------------------------------------------------------------------
(* Properties of the signature headers *)

SigningHeaders == {"Authorization", "X-FOST-Timestamp", "X-FOST-Headers", "X-FOST-User"}
Configured == authn_name # None /\ authn_name # ""
Listed(h) == {h["X-FOST-Headers"][i] : i \in 1..Len(h["X-FOST-Headers"])}
NamedScope(c) == c.scope # None /\ c.scope # ""

(* C11: in every signed request that was sent, X-FOST-Headers starts with  *)
(* its own name and lists exactly the extra signed headers the request     *)
(* carries: X-FOST-User is attached if and only if it is listed, whatever  *)
(* calls came before and whatever header mapping they were given           *)
C11_ListedMatchesAttached ==
    \A t \in Threads :
        LET h == call[t].headers
        IN  (call[t].sends > 0 /\ "Authorization" \in DOMAIN h) =>
                /\ h["X-FOST-Headers"][1] = "X-FOST-Headers"
                /\ ("X-FOST-User" \in DOMAIN h) <=> ("X-FOST-User" \in Listed(h))

(* C12: with no authenticator name, signing returns no header and the     *)
(* request carries none of the signature headers; with one, it returns    *)
(* Authorization, X-FOST-Timestamp and X-FOST-Headers, and X-FOST-User    *)
(* exactly when the acting identity is a non-empty name                   *)
C12_SignedHeaderSet ==
    \A t \in Threads :
        LET c == call[t]
        IN  c.sends > 0 =>
                IF Configured
                THEN DOMAIN c.req.signed =
                         {"Authorization", "X-FOST-Timestamp", "X-FOST-Headers"}
                         \cup (IF NamedScope(c) THEN {"X-FOST-User"} ELSE {})
                ELSE /\ c.req.signed = EmptyHeaders
                     /\ DOMAIN c.headers \cap SigningHeaders = {}
                     /\ DOMAIN c.headers \subseteq {"Accept", "Content-Type"}
                     /\ c.headers["Accept"] =
                            IF c.own THEN CallerHeaders["Accept"]
                            ELSE DefaultHeaders["Accept"]

C12_UnsignedUnderIdentity ==
    \E t \in Threads :
        /\ authn_name = None
        /\ call[t].verb = "PUT" /\ call[t].sends = 1 /\ call[t].own
        /\ call[t].scope = "a"
        /\ call[t].req.signed = EmptyHeaders

(* C20: the signature of every request sent is the one computed from the   *)
(* method, the path, the timestamp, the extra signed headers built from    *)
(* the acting identity and the body; nothing the header mapping holds,     *)
(* leftovers of earlier calls included, is part of what is signed          *)
C20_SignedMaterial ==
    \A t \in Threads :
        LET c == call[t]
            h == c.headers
        IN  (c.sends > 0 /\ Configured) =>
                h["Authorization"].signature =
                    <<"hmac", c.verb, c.req.path, h["X-FOST-Timestamp"][1],
                      IF NamedScope(c)
                      THEN [k \in {"X-FOST-User"} |-> utf7(c.scope)]
                      ELSE EmptyHeaders,
                      c.req.data>>

C20_LeftoverUserNotSigned ==
    \E t \in Threads :
        LET c == call[t]
        IN  /\ c.sends > 0 /\ Configured /\ c.own
            /\ c.scope = None
            /\ "X-FOST-User" \in DOMAIN c.headers
            /\ c.headers["Authorization"].signature[5] = EmptyHeaders

----------------------------------------------------------------------------
(* Properties of the verbs *)

Redirects == {301, 302}
(* the address or path the adapter was given: the signed path in process, *)
(* the whole address on the network                                       *)
SentTo(c) == IF c.req.adapter = "fake" THEN c.req.path ELSE c.req.addr
Writes == {"PUT", "POST", "DELETE"}
UsedCodes(c) == Accepted(c.verb, c.codes)
Answered(c) == Finished(c) /\ c.outcome # "error" /\ ~c.from_cache

(* C13: a LOCAL GET answered 301 or 302 outside the accepted set becomes a *)
(* GET of the redirect target with the same ttl and the same accepted set, *)
(* whose result is the call's result; a LOCAL GET that ends on a 301 or    *)
(* 302 returns it, the status being accepted, and followed nothing then    *)
C13_RedirectReissued ==
    [][\A t \in Threads :
          LET c == call[t]
              d == call'[t]
          IN  /\ d.hops > c.hops =>
                    /\ c.verb = "GET" /\ pc[t] = "get" /\ pc'[t] = "get"
                    /\ _use_fake(c.target) # <<>>
                    /\ d.hops = c.hops + 1 /\ d.sends = c.sends + 1
                    /\ d.via \in Redirects /\ d.via \notin UsedCodes(c)
                    /\ d.target \in {r.location : r \in MoreResponses}
                    /\ d.ttl = c.ttl /\ d.ttl = d.ttl0
                    /\ UsedCodes(d) = UsedCodes(c)
                    /\ d.outcome = "running"
              /\ (c.verb = "GET" /\ pc[t] = "get" /\ pc'[t] = "idle"
                  /\ _use_fake(c.target) # <<>> /\ d.status \in Redirects) =>
                    /\ d.outcome = "returned" /\ d.status \in UsedCodes(c)
                    /\ d.hops = c.hops /\ d.target = c.target
      ]_vars

C13_FollowedThenReturned ==
    \E t \in Threads :
        LET c == call[t]
        IN  /\ c.verb = "GET" /\ c.outcome = "returned"
            /\ c.hops = 1 /\ c.via = 301
            /\ c.ttl = LongTTL /\ c.codes.list = {302, 404}
            /\ c.status = 302 /\ c.target # c.url

(* C14: a LOCAL put, post or delete answered 301 or 302 sent one request,  *)
(* to the address it was called with; it ended in the assertion failure    *)
(* when the status is not accepted and returned the redirect response      *)
(* when it is                                                              *)
C14_WritesFollowNoRedirect ==
    \A t \in Threads :
        LET c == call[t]
        IN  (c.verb \in Writes /\ c.req.adapter = "fake" /\ c.status \in Redirects) =>
                /\ c.sends = 1 /\ c.hops = 0
                /\ c.req.addr = c.url /\ c.target = c.url
                /\ c.outcome = IF c.status \in UsedCodes(c) THEN "returned" ELSE "assert"

C14_LocalPostRedirected ==
    \E t \in Threads :
        /\ call[t].verb = "POST" /\ call[t].req.adapter = "fake"
        /\ call[t].status = 302 /\ call[t].outcome = "assert"
        /\ call[t].sends = 1

(* C15: a response with an accepted status whose content does not decode  *)
(* is returned with its own status and the empty document, by every verb  *)
(* on both adapters; nothing is raised, and the GET loop makes no attempt *)
(* after the one that got it                                              *)
C15_UndecodableGivesEmptyDocument ==
    \A t \in Threads :
        LET c == call[t]
        IN  (Answered(c) /\ c.status \in UsedCodes(c)) =>
                /\ c.outcome = "returned" /\ exc[t] = "none"
                /\ c.doc = IF loads(c.content).ok THEN loads(c.content).doc ELSE EmptyDoc
                /\ c.verb \in Writes => c.sends = 1
                /\ c.req.adapter = "real" /\ c.verb = "GET" =>
                      /\ c.trail[Len(c.trail)] = c.status
                      /\ \A i \in 1..(Len(c.trail) - 1) : c.trail[i] \notin UsedCodes(c)

C15_JunkOnSecondAttempt ==
    \E t \in Threads :
        /\ call[t].verb = "GET" /\ call[t].req.adapter = "real"
        /\ call[t].trail = <<404, 200>>
        /\ call[t].outcome = "returned" /\ call[t].content = "junk"
        /\ call[t].status = 200 /\ call[t].doc = EmptyDoc

(* C16: a REMOTE GET that went to the network and did not return made all  *)
(* the attempts of its budget, a failed send counting as a non-accepted    *)
(* status, and ended in the assertion failure                              *)
C16_TransportFailureRetried ==
    \A t \in Threads :
        LET c == call[t]
        IN  (c.verb = "GET" /\ c.req.adapter = "real" /\ Finished(c)
             /\ c.outcome # "returned") =>
                c.tries = Attempts /\ c.outcome = "assert"

(* the defaults of the four verbs *)
VerbDefault(verb) ==
    CASE verb = "GET" -> {200}
      [] verb = "DELETE" -> {200, 404, 410}
      [] verb = "PUT" -> {200, 201, 204}
      [] verb = "POST" -> {200}

(* C17 as stated: every answered call returns exactly when the status is in *)
(* the set the caller gave, or in the verb default when it gave none        *)
C17_GivenSetUsedExactly ==
    \A t \in Threads :
        LET c == call[t]
        IN  (Answered(c) /\ c.verb # "none") =>
                (c.outcome = "returned" <=>
                    c.status \in (IF c.codes.given THEN c.codes.list
                                  ELSE VerbDefault(c.verb)))

(* C17: every answered call, LOCAL or REMOTE, returns exactly when the     *)
(* status is in the non-empty set the caller gave, or in the verb default  *)
(* ({200} GET, {200, 404, 410} DELETE, {200, 201, 204} PUT, {200} POST)    *)
(* when it gave none or an empty one                                       *)
C17_NonEmptySetOrDefault ==
    \A t \in Threads :
        LET c == call[t]
        IN  (Answered(c) /\ c.verb # "none") =>
                (c.outcome = "returned" <=>
                    c.status \in (IF c.codes.given /\ c.codes.list # {}
                                  THEN c.codes.list
                                  ELSE VerbDefault(c.verb)))

C17_DeleteDefaultAccepts410 ==
    \E t \in Threads :
        /\ call[t].verb = "DELETE" /\ call[t].codes = Codes({})
        /\ call[t].status = 410 /\ call[t].outcome = "returned"

(* C18: put, post and delete send one request per call, and a LOCAL get    *)
(* one per hop; a status that is not accepted (and, for get, not a         *)
(* redirect to follow) ends the call at once in the assertion failure      *)
C18_SentOncePerCall ==
    \A t \in Threads :
        LET c == call[t]
        IN  /\ (c.verb \in Writes /\ Finished(c)) =>
                  /\ c.sends = 1 /\ c.tries = 0 /\ c.hops = 0
                  /\ (c.outcome # "error" /\ c.status \notin UsedCodes(c)) =>
                         c.outcome = "assert"
            /\ (c.verb = "GET" /\ ~c.read) =>
                  /\ c.sends = c.hops + (IF pc[t] = "get" THEN 0 ELSE 1)
                  /\ c.tries = 0
                  /\ (Finished(c) /\ c.status \notin UsedCodes(c)) =>
                         c.outcome = "assert"

C18_SecondHopRefused ==
    \E t \in Threads :
        /\ call[t].verb = "GET" /\ ~call[t].read
        /\ call[t].hops = 1 /\ call[t].sends = 2
        /\ call[t].status = 404 /\ call[t].outcome = "assert"

(* C19: a request for an address starting with the local prefix went to    *)
(* the in-process adapter with the prefix stripped and the leading '/'     *)
(* kept; one for an address starting with '/' went there with the address  *)
(* as its path; any other went to the network adapter with the address     *)
(* unchanged. Every LOCAL path begins with '/'                             *)
C19_Classification ==
    \A t \in Threads :
        LET c == call[t]
            u == c.req.addr
        IN  c.sends > 0 =>
                /\ IF StartsWith(u, slumber_local)
                   THEN /\ c.req.adapter = "fake"
                        /\ SentTo(c) = <<"/">> \o SubSeq(u, Len(slumber_local) + 1, Len(u))
                   ELSE IF StartsWith(u, <<"/">>)
                   THEN c.req.adapter = "fake" /\ SentTo(c) = u
                   ELSE c.req.adapter = "real" /\ SentTo(c) = u
                /\ c.req.adapter = "fake" => SentTo(c)[1] = "/"

C19_PrefixAloneIsRoot ==
    \E t \in Threads :
        /\ call[t].sends > 0 /\ call[t].req.addr = slumber_local
        /\ call[t].req.adapter = "fake" /\ SentTo(call[t]) = <<"/">>

----------------------------------------------------------------------------
(* Properties of the cache, the identity and the clock across calls *)

(* C21: a response is marked from_cache exactly when the call returned it  *)
(* from a cache hit of a REMOTE GET; such a GET made no attempt, and what  *)
(* it sent and signed is what the LOCAL hops before it did: nothing, and   *)
(* no Authorization header, when the call began at the REMOTE address      *)
C21_MarkedIffServedFromCache ==
    \A t \in Threads :
        LET c == call[t]
        IN  /\ c.from_cache <=>
                  /\ c.verb = "GET" /\ c.read /\ c.outcome = "returned"
                  /\ c.tries = 0 /\ c.prior.any
            /\ c.from_cache =>
                  /\ _use_fake(c.target) = <<>>
                  /\ c.trail = <<>> /\ c.sends = c.hops
                  /\ c.req.adapter # "real"
                  /\ c.status = c.prior.status /\ c.content = c.prior.content
                  /\ c.hops = 0 =>
                        /\ c.req = NoRequest
                        /\ DOMAIN c.headers \cap SigningHeaders = {}
            /\ (c.outcome = "returned" /\ (c.tries > 0 \/ c.verb \in Writes \/ ~c.read))
                  => ~c.from_cache

C21_HitWithoutRequest ==
    \E t \in Threads :
        /\ call[t].from_cache /\ call[t].hops = 0 /\ call[t].sends = 0
        /\ call[t].req = NoRequest /\ call[t].status = 200

(* C22: no step of get, put, post or delete changes the calling thread's   *)
(* identity: while a call runs the thread opens and closes no scope, and   *)
(* every step that is not the entry or the exit of a for_user scope        *)
(* leaves PER_THREAD.username as it was, whether the call returns, fails   *)
(* its assertion, makes another attempt or follows a redirect              *)
C22_VerbsLeaveIdentity ==
    [][\A t \in Threads :
          /\ pc[t] # "idle" => stack'[t] = stack[t]
          /\ stack'[t] = stack[t] => username'[t] = username[t]
      ]_vars

C22_RedirectedAndRetriedInScope ==
    \E t \in Threads :
        /\ call[t].verb = "GET" /\ call[t].hops = 1 /\ call[t].tries = Attempts
        /\ call[t].outcome = "assert"
        /\ call[t].scope = "a" /\ username[t] = "a"

(* C24: a put or post whose document cannot be encoded ends with that      *)
(* error having signed and sent nothing; the step leaves the cache, the    *)
(* identity and the caller's header mapping alone, and a document that     *)
(* cannot be encoded is never part of a request                            *)
C24_EncodeFailureBeforeRequest ==
    [][\A t \in Threads :
          LET d == call'[t]
          IN  /\ d.req.data # dumps(Unserializable)
              /\ (d.outcome = "encode" /\ exc[t] = "none" /\ exc'[t] = "raised") =>
                    /\ d.verb \in {"PUT", "POST"}
                    /\ d.sends = 0 /\ d.tries = 0 /\ d.req = NoRequest
                    /\ d.headers = EmptyHeaders
                    /\ pc'[t] = "idle"
                    /\ cache' = cache /\ username' = username /\ stack' = stack
                    /\ held' = held
      ]_vars

C24_FailedInScopeWithCache ==
    \E t \in Threads :
        /\ call[t].verb = "PUT" /\ call[t].outcome = "encode" /\ exc[t] = "raised"
        /\ call[t].sends = 0
        /\ username[t] = "a" /\ cache_key(RemoteX) \in DOMAIN cache

(* C28: the response a REMOTE GET returns from the cache was stored by a   *)
(* request signed for the acting identity of the call it is returned to    *)
C28_CachedForSameIdentity ==
    \A t \in Threads :
        call[t].from_cache => call[t].prior.scope = call[t].scope

(* C23: with two threads getting one REMOTE address in any interleaving,   *)
(* every cache entry is the status and content of one attempt that its     *)
(* writer accepted, and every call that returned has returned the entry    *)
(* it found or its own last attempt, which it accepted; no call makes more *)
(* than its three attempts                                                 *)
C23_RaceKeepsEntriesWhole ==
    /\ \A k \in DOMAIN cache :
          LET e == cache[k]
          IN  /\ e.by.any /\ e.by.verb = "GET" /\ e.by.remote
              /\ e.status = e.by.status /\ e.content = e.by.content
              /\ e.status \in e.by.accepted
              /\ \E r \in RaceAnswers : r.status = e.status /\ r.content = e.content
    /\ \A t \in Threads :
          LET c == call[t]
          IN  /\ c.tries <= Attempts /\ c.sends = c.tries
              /\ c.outcome = "returned" =>
                    IF c.from_cache
                    THEN /\ c.prior.any /\ c.tries = 0
                         /\ c.status = c.prior.status /\ c.content = c.prior.content
                         /\ c.status \in c.prior.accepted
                    ELSE /\ c.trail[Len(c.trail)] = c.status
                         /\ c.status \in UsedCodes(c)

(* both threads missed, both fetched, and the second store replaced the first *)
C23_BothMissedBothStored ==
    /\ \A t \in Threads :
          /\ call[t].outcome = "returned" /\ call[t].wrote
          /\ ~call[t].prior.any
    /\ call["t1"].status # call["t2"].status
    /\ cache[cache_key(RemoteX)].status = call["t2"].status

----------------------------------------------------------------------------
(* Properties of the server's JSON formatting *)

RawTypes == {"django.db.models.fields.AutoField",
             "django.db.models.fields.BooleanField",
             "django.db.models.fields.NullBooleanField"}

(* C25: the wire value of a field is: for a reference without a value,     *)
(* null; for a reference with one, type = root + the related model's path, *)
(* display = the value's text and data = type + 'data/<pk>/'; for an       *)
(* AutoField, BooleanField or NullBooleanField the value itself, null      *)
(* included; for any other field null for null and else the value's text   *)
C25_WireValue ==
    conv.done =>
        IF conv.kind = "object"
        THEN IF conv.value = PyNone THEN conv.result = PyNone
             ELSE /\ conv.result.py = "dict"
                  /\ conv.result.type = slumber_root \o rel_to_path(conv.value)
                  /\ conv.result.display = Py("unicode", conv.value.v)
                  /\ conv.result.data =
                        conv.result.type \o <<"data/", conv.value.pk, "/">>
        ELSE IF conv.type \in RawTypes THEN conv.result = conv.value
        ELSE IF conv.value = PyNone THEN conv.result = PyNone
        ELSE conv.result = Py("unicode", conv.value.v) /\ conv.result.py = "unicode"

C25_BooleanStaysRaw ==
    /\ conv.done /\ conv.type = "django.db.models.fields.BooleanField"
    /\ conv.value = Py("bool", "False") /\ conv.result = Py("bool", "False")

----------------------------------------------------------------------------
(* Properties of the retry loop *)

Stamp(h) == h["X-FOST-Timestamp"][1]

(* C26: with signing configured, each attempt of a REMOTE get sends the    *)
(* Authorization, X-FOST-Timestamp and X-FOST-Headers computed at that     *)
(* attempt from the clock read at that attempt, whatever the mapping held  *)
(* before, and the timestamp of an attempt is not before the previous one  *)
C26_EachAttemptSignedAfresh ==
    [][\A t \in Threads :
        (pc[t] = "attempt" /\ call'[t].tries = call[t].tries + 1 /\ Configured) =>
            LET h == call'[t].headers
                parsed == urlparse(call[t].target)
                named == username[t] # None /\ username[t] # ""
                to_sign == IF named THEN [k \in {"X-FOST-User"} |-> utf7(username[t])]
                           ELSE EmptyHeaders
            IN /\ h["X-FOST-Timestamp"] = <<now, "Z">>
               /\ h["Authorization"] =
                     [scheme |-> "FOST", name |-> utf7(authn_name),
                      signature |-> fost_hmac_request_signature(
                                        "GET", parsed.path, now, to_sign, parsed.query)]
               /\ h["X-FOST-Headers"] = IF named THEN <<"X-FOST-Headers", "X-FOST-User">>
                                        ELSE <<"X-FOST-Headers">>
               /\ \A k \in {"Authorization", "X-FOST-Timestamp", "X-FOST-Headers"} :
                     call'[t].req.signed[k] = h[k]
               /\ call[t].tries >= 1 => Stamp(h) >= Stamp(call[t].headers)
      ]_vars

C26_SecondAttemptLaterStamp ==
    /\ Configured /\ pc[Caller] = "attempt"
    /\ call[Caller].tries = 2 /\ call[Caller].start = 0
    /\ Stamp(call[Caller].headers) = 1
    /\ call[Caller].own

----------------------------------------------------------------------------
(* Properties of the query string *)

BeforeMark(url) == SubSeq(url, 1, Find(url, "?", 1) - 1)
AfterMark(url) == SubSeq(url, Find(url, "?", 1) + 1, Len(url))
PathOf(url) ==
    IF _use_fake(url) # <<>> THEN _use_fake(url)
    ELSE SubSeq(url, Find(url, "/", Find(url, ":", 1) + 3), Len(url))

(* C27: every GET that was not served from the cache has signed and       *)
(* requested the part of its path before the '?', with the part after it  *)
(* handed over as the body, whatever the number of '?' in the address     *)
C27_QuerySignedApart ==
    \A t \in Threads :
        LET c == call[t] IN
        (c.verb = "GET" /\ c.outcome \notin {"none", "running"} /\ ~c.from_cache) =>
            /\ c.sends >= 1
            /\ c.req.path = BeforeMark(PathOf(c.target))
            /\ c.req.data = AfterMark(PathOf(c.target))
            /\ Count(c.req.path, "?") = 0

----------------------------------------------------------------------------
(* Properties of termination *)

(* C29: a LOCAL get that was called returns or raises in the end, *)
(* whatever the handler answers                                    *)
C29_LocalGetEnds ==
    \A t \in Threads : (pc[t] = "get") ~> (pc[t] = "idle")

====
